---------------------------- MODULE Spec2Model ----------------------------
(***************************************************************************)
(* The Ethereum node launcher, EthNodeLauncher::launch_node                *)
(* (crates/ethereum/node/src/launch.rs): the launch sequence as a program  *)
(* counter over the steps of the function, the background tasks it spawns, *)
(* the single-use completion channel of the consensus-engine task, the     *)
(* exit future, the execution-extension finished height consulted by the   *)
(* pruner and the merged event stream of the events task.                  *)
(***************************************************************************)
EXTENDS Integers, Sequences, FiniteSets

\* ------------------------------------------------------------------ bounds

\* Largest number of installed execution extensions.
MaxExex == 2
\* Largest block height an extension reports and the pruner prunes to.
MaxHeight == 2
\* Largest number of events emitted on the event streams, all sources together.
MaxEvents == 4

\* The number of requests the Engine-API handler sends.
MaxRequests == 2

VARIABLES
    config,        \* the node configuration handed to launch_node
    store,         \* the genesis the store contains: "none", "G1" or "G2"
    pc,            \* the step launch_node is at, "returned" or "failed"
    result,        \* what launch_node returned
    started,       \* the steps launch_node has entered, in order
    completed,     \* the steps that completed successfully, in order
    fields,        \* the Launch Context fields produced so far
    reads,         \* the Launch Context fields read by the last step
    tasks,         \* the background tasks spawned so far
    exexHandle,    \* the Option<ExExManagerHandle> of ExExLauncher::launch
    heights,       \* the finished height each extension has reported
    published,     \* the finished height the manager's handle exposes
    pipelineExex,  \* the extension handle given to the pipeline
    prunerBound,   \* the finished-height bound the pruner was built with
    pipeline,      \* who holds the pipeline
    stageDrivers,  \* who has run a pipeline stage
    engine,        \* the consensus-engine task's position
    engineRes,     \* the result eth_service.await returned
    oneshot,       \* the completion channel (tx, rx)
    sends,         \* the number of tx.send calls made
    exitFuture,    \* the Node Handle's exit future
    created,       \* the event streams that exist
    closed,        \* the event streams whose source has ended
    emitted,       \* events emitted on each stream
    pending,       \* events emitted and not yet taken by the merged stream
    delivered,     \* events the events task received from the merged stream
    merged,        \* the merged stream: "none", "open" or "ended"
    hooks,         \* the EngineHooks set: who holds it and the hooks added to it
    tree,          \* who holds _to_tree_rx and _from_tree_tx
    reqRx,         \* who holds consensus_engine_rx
    reqQueue,      \* the requests in the consensus-engine request queue
    received,      \* the requests the service took from the queue, in order
    reqSent,       \* the number of sends made on the Consensus-Engine Handle
    lastSend,      \* what the last send on the handle returned
    panicked,      \* the spawned tasks that panicked
    shutdown       \* the tasks whose failure was reported as fatal

launchVars == <<pc, result, started, completed, fields, reads>>
cfgVars == <<config, store>>
exexVars == <<exexHandle, heights, published, pipelineExex, prunerBound>>
engineVars == <<pipeline, stageDrivers, engine, engineRes, oneshot, sends, exitFuture>>
eventVars == <<created, closed, emitted, pending, delivered, merged>>
wireVars == <<hooks, tree, reqRx>>
reqVars == <<reqQueue, received, reqSent, lastSend>>
superVars == <<panicked, shutdown>>
vars == <<launchVars, cfgVars, tasks, exexVars, engineVars, eventVars, wireVars, reqVars,
          superVars>>

\* ------------------------------------------------------------------ helpers

RECURSIVE SeqMin(_)
SeqMin(s) ==
    IF Len(s) = 1 THEN s[1]
    ELSE LET m == SeqMin(Tail(s)) IN IF s[1] < m THEN s[1] ELSE m

IndexOf(seq, x) == CHOOSE i \in 1..Len(seq) : seq[i] = x

IsPrefix(s, t) == Len(s) <= Len(t) /\ SubSeq(t, 1, Len(s)) = s

RECURSIVE Restrict(_, _)
Restrict(seq, S) ==
    IF seq = <<>> THEN <<>>
    ELSE IF Head(seq) \in S THEN <<Head(seq)>> \o Restrict(Tail(seq), S)
    ELSE Restrict(Tail(seq), S)

Range(seq) == {seq[i] : i \in 1..Len(seq)}

RECURSIVE Sum(_, _)
Sum(f, S) ==
    IF S = {} THEN 0
    ELSE LET x == CHOOSE y \in S : TRUE IN f[x] + Sum(f, S \ {x})

\* ------------------------------------------------------------------ launch_node

\* The genesis of the configured chain spec.
ConfiguredGenesis == "G1"

\* The statements of launch_node, in the order the function executes them.
LaunchOrderGenesisAfterMetrics ==
    << "with_configured_globals", "with_loaded_toml_config", "with_resolved_peers",
       "attach", "with_adjusted_configs", "with_provider_factory",
       "with_prometheus_server", "with_metrics_task", "with_genesis",
       "with_blockchain_db", "with_components", "launch_exex", "fetch_client",
       "max_block", "static_file_hook", "build_networked_pipeline", "build_pruner",
       "eth_service_new", "spawn_events_task", "auth_jwt_secret", "launch_rpc_servers",
       "spawn_consensus_engine", "on_node_started", "node_handle" >>

LaunchOrderExexBeforeComponents ==
    << "with_configured_globals", "with_loaded_toml_config", "with_resolved_peers",
       "attach", "with_adjusted_configs", "with_provider_factory",
       "with_prometheus_server", "with_genesis", "with_metrics_task",
       "with_blockchain_db", "launch_exex", "with_components", "fetch_client",
       "max_block", "static_file_hook", "build_networked_pipeline", "build_pruner",
       "eth_service_new", "spawn_events_task", "auth_jwt_secret", "launch_rpc_servers",
       "spawn_consensus_engine", "on_node_started", "node_handle" >>

LaunchOrderNotifyBeforeEngine ==
    << "with_configured_globals", "with_loaded_toml_config", "with_resolved_peers",
       "attach", "with_adjusted_configs", "with_provider_factory",
       "with_prometheus_server", "with_genesis", "with_metrics_task",
       "with_blockchain_db", "with_components", "launch_exex", "fetch_client",
       "max_block", "static_file_hook", "build_networked_pipeline", "build_pruner",
       "eth_service_new", "spawn_events_task", "auth_jwt_secret", "launch_rpc_servers",
       "on_node_started", "spawn_consensus_engine", "node_handle" >>

LaunchOrderEngineBeforeRpc ==
    << "with_configured_globals", "with_loaded_toml_config", "with_resolved_peers",
       "attach", "with_adjusted_configs", "with_provider_factory",
       "with_prometheus_server", "with_genesis", "with_metrics_task",
       "with_blockchain_db", "with_components", "launch_exex", "fetch_client",
       "max_block", "static_file_hook", "build_networked_pipeline", "build_pruner",
       "eth_service_new", "spawn_events_task", "spawn_consensus_engine",
       "auth_jwt_secret", "launch_rpc_servers", "on_node_started", "node_handle" >>

LaunchOrder ==
    << "with_configured_globals", "with_loaded_toml_config", "with_resolved_peers",
       "attach", "with_adjusted_configs", "with_provider_factory",
       "with_prometheus_server", "with_genesis", "with_metrics_task",
       "with_blockchain_db", "with_components", "launch_exex", "fetch_client",
       "max_block", "static_file_hook", "build_networked_pipeline", "build_pruner",
       "eth_service_new", "spawn_events_task", "auth_jwt_secret", "launch_rpc_servers",
       "spawn_consensus_engine", "on_node_started", "node_handle" >>

\* The statement that follows step s; the function returns after the last.
After(s) ==
    LET i == IndexOf(LaunchOrder, s)
    IN IF i = Len(LaunchOrder) THEN "returned" ELSE LaunchOrder[i + 1]

\* The Launch Context fields a step makes available.
Produces(s) ==
    CASE s = "with_loaded_toml_config" -> {"toml_config", "node_config", "chain_spec"}
      [] s = "attach" -> {"database"}
      [] s = "with_provider_factory" ->
             {"provider_factory", "static_file_producer", "pruner_builder"}
      [] s = "with_genesis" -> {"genesis"}
      [] s = "with_metrics_task" -> {"sync_metrics_tx"}
      [] s = "with_blockchain_db" -> {"blockchain_db", "head"}
      [] s = "with_components" -> {"components", "node_adapter"}
      [] OTHER -> {}

\* The Launch Context accessors the statements of a step call.
Reads(s) ==
    CASE s = "with_genesis" -> {"chain_spec"}
      [] s = "with_metrics_task" -> {"chain_spec"}
      [] s = "launch_exex" -> {"head", "node_adapter", "node_config", "toml_config"}
      [] s = "fetch_client" -> {"components"}
      [] s = "max_block" -> {"node_config", "provider_factory"}
      [] s = "static_file_hook" -> {"static_file_producer", "task_executor"}
      [] s = "build_networked_pipeline" ->
             {"toml_config", "components", "provider_factory", "task_executor",
              "sync_metrics_tx"}
      [] s = "build_pruner" ->
             {"node_config", "pruner_builder", "provider_factory", "toml_config",
              "task_executor"}
      [] s = "eth_service_new" -> {"chain_spec", "task_executor"}
      [] s = "spawn_events_task" ->
             {"components", "node_config", "blockchain_db", "task_executor", "head"}
      [] s = "auth_jwt_secret" ->
             {"blockchain_db", "chain_spec", "components", "task_executor", "node_config"}
      [] s = "launch_rpc_servers" -> {"node_adapter", "node_config"}
      [] s = "spawn_consensus_engine" -> {"task_executor"}
      [] s = "on_node_started" ->
             {"components", "node_adapter", "task_executor", "node_config", "data_dir"}
      [] OTHER -> {}

NoResult == [kind |-> "none"]
Err(s, e) == [kind |-> "err", step |-> s, error |-> e]
Handle == [kind |-> "handle"]

\* A step that returns Ok: launch_node goes on to the next statement.
StepOk(s) ==
    /\ pc = s
    /\ pc' = After(s)
    /\ started' = Append(started, s)
    /\ completed' = Append(completed, s)
    /\ reads' = Reads(s)
    /\ fields' = fields \cup Produces(s)
    /\ result' = IF After(s) = "returned" THEN Handle ELSE result
    /\ UNCHANGED <<reqVars, superVars>>

\* A faulty variant of StepErr: the error is swallowed and launch goes on.
StepErrSwallowed(s, e) ==
    /\ pc = s
    /\ pc' = After(s)
    /\ started' = Append(started, s)
    /\ completed' = completed
    /\ reads' = Reads(s)
    /\ fields' = fields
    /\ result' = Err(s, e)
    /\ UNCHANGED <<wireVars, reqVars, superVars>>

\* launch_node returns: the locals it still holds are dropped with its frame,
\* the hook set, the two tree endpoints bound to _to_tree_rx and
\* _from_tree_tx, and the request receiver unless the spawned task has it.
DropLocals ==
    /\ hooks' = IF hooks.holder = "launch_node"
                THEN [hooks EXCEPT !.holder = "dropped"] ELSE hooks
    /\ tree' = [e \in DOMAIN tree |->
                   IF tree[e] = "launch_node" THEN "dropped" ELSE tree[e]]
    /\ reqRx' = IF reqRx = "launch_node" \/ (reqRx = "eth_service" /\ engine = "unspawned")
                THEN "dropped" ELSE reqRx

\* A step whose `?` sees an Err: launch_node returns it.
StepErr(s, e) ==
    /\ pc = s
    /\ pc' = "failed"
    /\ started' = Append(started, s)
    /\ completed' = completed
    /\ reads' = Reads(s)
    /\ fields' = fields
    /\ result' = Err(s, e)
    /\ DropLocals
    /\ reqQueue' = IF reqRx' = "dropped" THEN <<>> ELSE reqQueue
    /\ UNCHANGED <<received, reqSent, lastSend, superVars>>

\* A fallible step with no other effect.
Fallible(s) == (StepOk(s) /\ UNCHANGED wireVars) \/ StepErr(s, "error")

Init ==
    /\ config \in [metrics : BOOLEAN, exexs : 0..MaxExex, tip : BOOLEAN, dev : BOOLEAN]
    /\ store \in {"none", "G1", "G2"}
    /\ pc = LaunchOrder[1]
    /\ result = NoResult
    /\ started = <<>>
    /\ completed = <<>>
    /\ fields = {"task_executor", "data_dir"}
    /\ reads = {}
    /\ tasks = {}
    /\ exexHandle = "unlaunched"
    /\ heights = [i \in 1..config.exexs |-> 0]
    /\ published = 0
    /\ pipelineExex = "unset"
    /\ prunerBound = "unset"
    /\ pipeline = "none"
    /\ stageDrivers = {}
    /\ engine = "unspawned"
    /\ engineRes = "none"
    /\ oneshot = [made |-> FALSE, value |-> "none", tx |-> FALSE, rx |-> FALSE]
    /\ sends = 0
    /\ exitFuture = "none"
    /\ created = {}
    /\ closed = {}
    /\ emitted = [s \in {"network", "pipeline", "cl_health", "pruner", "static_file"} |-> 0]
    /\ pending = [s \in {"network", "pipeline", "cl_health", "pruner", "static_file"} |-> 0]
    /\ delivered = [s \in {"network", "pipeline", "cl_health", "pruner", "static_file"} |-> 0]
    /\ merged = "none"
    /\ hooks = [holder |-> "none", set |-> {}]
    /\ tree = [toTreeRx |-> "none", fromTreeTx |-> "none"]
    /\ reqRx = "none"
    /\ reqQueue = <<>>
    /\ received = <<>>
    /\ reqSent = 0
    /\ lastSend = "none"
    /\ panicked = {}
    /\ shutdown = {}


\* ------------------------------------------------------------------ the Launch Context chain

\* ctx.with_configured_globals()
WithConfiguredGlobals ==
    /\ StepOk("with_configured_globals")
    /\ UNCHANGED wireVars
    /\ UNCHANGED <<cfgVars, tasks, exexVars, engineVars, eventVars>>

\* .with_loaded_toml_config(config)?
WithLoadedTomlConfig ==
    /\ Fallible("with_loaded_toml_config")
    /\ UNCHANGED <<cfgVars, tasks, exexVars, engineVars, eventVars>>

\* .with_resolved_peers().await?
WithResolvedPeers ==
    /\ Fallible("with_resolved_peers")
    /\ UNCHANGED <<cfgVars, tasks, exexVars, engineVars, eventVars>>

\* .attach(database.clone())
Attach ==
    /\ StepOk("attach")
    /\ UNCHANGED wireVars
    /\ UNCHANGED <<cfgVars, tasks, exexVars, engineVars, eventVars>>

\* .with_adjusted_configs()
WithAdjustedConfigs ==
    /\ StepOk("with_adjusted_configs")
    /\ UNCHANGED wireVars
    /\ UNCHANGED <<cfgVars, tasks, exexVars, engineVars, eventVars>>

\* .with_provider_factory().await?
WithProviderFactory ==
    /\ Fallible("with_provider_factory")
    /\ UNCHANGED <<cfgVars, tasks, exexVars, engineVars, eventVars>>

\* .with_prometheus_server().await?: with a metrics endpoint configured the
\* server is started on the task executor, or starting it fails.
WithPrometheusServer ==
    /\ \/ /\ StepOk("with_prometheus_server")
          /\ UNCHANGED wireVars
          /\ tasks' = IF config.metrics THEN tasks \cup {"prometheus server"} ELSE tasks
       \/ /\ StepErr("with_prometheus_server", "error")
          /\ tasks' = tasks
    /\ UNCHANGED <<cfgVars, exexVars, engineVars, eventVars>>

\* .with_genesis()?: writes the genesis to an empty store, accepts the same
\* genesis, fails on a different one.
WithGenesis ==
    /\ \/ /\ store \in {"none", ConfiguredGenesis}
          /\ StepOk("with_genesis")
          /\ UNCHANGED wireVars
          /\ store' = ConfiguredGenesis
       \/ /\ store \in {"none", ConfiguredGenesis}
          /\ StepErr("with_genesis", "error")
          /\ store' = store
       \/ /\ store \notin {"none", ConfiguredGenesis}
          /\ StepErr("with_genesis", "genesis_mismatch")
          /\ store' = store
    /\ UNCHANGED <<config, tasks, exexVars, engineVars, eventVars>>

\* .with_metrics_task()
WithMetricsTask ==
    /\ StepOk("with_metrics_task")
    /\ UNCHANGED wireVars
    /\ tasks' = tasks \cup {"metrics task"}
    /\ UNCHANGED <<cfgVars, exexVars, engineVars, eventVars>>

\* .with_blockchain_db::<T>()?
WithBlockchainDb ==
    /\ Fallible("with_blockchain_db")
    /\ UNCHANGED <<cfgVars, tasks, exexVars, engineVars, eventVars>>

\* .with_components(components_builder, on_component_initialized).await?
\* The network of the built components is live from here on.
WithComponents ==
    /\ Fallible("with_components")
    /\ UNCHANGED <<cfgVars, tasks, exexVars, engineVars, eventVars>>

\* ------------------------------------------------------------------ wiring

\* ExExLauncher::new(head, node_adapter, installed_exex, configs).launch().await
LaunchExEx ==
    /\ StepOk("launch_exex")
    /\ UNCHANGED wireVars
    /\ exexHandle' = IF config.exexs = 0 THEN "none" ELSE "some"
    /\ tasks' = IF config.exexs = 0 THEN tasks ELSE tasks \cup {"exex manager"}
    /\ UNCHANGED <<cfgVars, heights, published, pipelineExex, prunerBound,
                   engineVars, eventVars>>

\* ctx.components().network().fetch_client().await? and the request queue
FetchClient ==
    /\ \/ /\ StepOk("fetch_client")
          /\ reqRx' = "launch_node"
          /\ UNCHANGED <<hooks, tree>>
       \/ StepErr("fetch_client", "error")
    /\ UNCHANGED <<cfgVars, tasks, exexVars, engineVars, eventVars>>

\* ctx.max_block(network_client.clone()).await? and EngineHooks::new()
MaxBlock ==
    /\ \/ /\ StepOk("max_block")
          /\ hooks' = [holder |-> "launch_node", set |-> {}]
          /\ UNCHANGED <<tree, reqRx>>
       \/ StepErr("max_block", "error")
    /\ UNCHANGED <<cfgVars, tasks, exexVars, engineVars, eventVars>>

\* The static-file producer, its event stream and its hook.
StaticFileHook ==
    /\ StepOk("static_file_hook")
    /\ hooks' = [hooks EXCEPT !.set = @ \cup {"static_file"}]
    /\ UNCHANGED <<tree, reqRx>>
    /\ created' = created \cup {"static_file"}
    /\ UNCHANGED <<cfgVars, tasks, exexVars, engineVars, closed, emitted, pending,
                   delivered, merged>>

\* exex_manager_handle.clone().unwrap_or_else(ExExManagerHandle::empty)
PipelineExExHandle == IF exexHandle = "some" THEN "manager" ELSE "empty"

\* A faulty variant of BuildNetworkedPipeline: launch_node runs the pipeline it built.
BuildNetworkedPipelineAndRun ==
    /\ \/ /\ StepOk("build_networked_pipeline")
          /\ UNCHANGED wireVars
          /\ pipeline' = "launch_node"
          /\ stageDrivers' = stageDrivers \cup {"launch_node"}
          /\ pipelineExex' = PipelineExExHandle
          /\ created' = created \cup {"pipeline"}
       \/ /\ StepErr("build_networked_pipeline", "error")
          /\ UNCHANGED <<pipeline, stageDrivers, pipelineExex, created>>
    /\ UNCHANGED <<cfgVars, tasks, exexHandle, heights, published, prunerBound,
                   engine, engineRes, oneshot, sends, exitFuture,
                   closed, emitted, pending, delivered, merged>>

\* build_networked_pipeline(...)? and pipeline.events(): the pipeline is built
\* and held by launch_node, nothing of it is run.
BuildNetworkedPipeline ==
    /\ \/ /\ StepOk("build_networked_pipeline")
          /\ UNCHANGED wireVars
          /\ pipeline' = "launch_node"
          /\ pipelineExex' = PipelineExExHandle
          /\ created' = created \cup {"pipeline"}
       \/ /\ StepErr("build_networked_pipeline", "error")
          /\ UNCHANGED <<pipeline, pipelineExex, created>>
    /\ UNCHANGED <<cfgVars, tasks, exexHandle, heights, published, prunerBound,
                   stageDrivers, engine, engineRes, oneshot, sends, exitFuture,
                   closed, emitted, pending, delivered, merged>>

\* A faulty variant of PrunerFinishedHeight: the bound is never set.
PrunerFinishedHeightNeverSet == "unbounded"

\* A faulty variant of PrunerFinishedHeight: the bound is set whatever the handle is.
PrunerFinishedHeightAlwaysSet == "watch"

\* if let Some(handle) = &exex_manager_handle { finished_exex_height(handle.finished_height()) }
PrunerFinishedHeight == IF exexHandle = "some" THEN "watch" ELSE "unbounded"

\* The pruner, its event stream and its hook.
BuildPruner ==
    /\ StepOk("build_pruner")
    /\ hooks' = [hooks EXCEPT !.set = @ \cup {"prune"}]
    /\ UNCHANGED <<tree, reqRx>>
    /\ prunerBound' = PrunerFinishedHeight
    /\ created' = created \cup {"pruner"}
    /\ UNCHANGED <<cfgVars, tasks, exexHandle, heights, published, pipelineExex,
                   engineVars, closed, emitted, pending, delivered, merged>>

\* channel(), unbounded_channel() and EthService::new(.., to_tree_tx,
\* from_tree_rx, consensus_engine_rx, pipeline, ..): the pipeline and the
\* request receiver are moved into the service, the other ends of the two
\* tree channels stay in launch_node, and the hook set is not passed on.
EthServiceNew ==
    /\ StepOk("eth_service_new")
    /\ pipeline' = "eth_service"
    /\ tree' = [toTreeRx |-> "launch_node", fromTreeTx |-> "launch_node"]
    /\ reqRx' = "eth_service"
    /\ hooks' = hooks
    /\ UNCHANGED <<cfgVars, tasks, exexVars, stageDrivers, engine, engineRes, oneshot,
                   sends, exitFuture, eventVars>>

\* ctx.node_config().debug.tip.is_none() && !ctx.is_dev()
ClHealthActive == ~config.tip /\ ~config.dev

\* A faulty variant of ClHealthStream: the debug tip alone decides.
ClHealthStreamTipOnly == IF ~config.tip THEN "health_events" ELSE "empty"

\* if tip.is_none() && !is_dev() { Either::Left(ConsensusLayerHealthEvents::new(..)) }
\* else { Either::Right(stream::empty()) }
ClHealthStream == IF ClHealthActive THEN "health_events" ELSE "empty"

\* stream_select!(network, pipeline, cl health or empty, pruner, static file)
\* and spawn_critical("events task", handle_events(..)): the third stream is
\* the health monitor's, or the empty stream, which has ended from the start.
SpawnEventsTask ==
    /\ StepOk("spawn_events_task")
    /\ UNCHANGED wireVars
    /\ created' = created \cup {"network"} \cup
                     (IF ClHealthStream = "health_events" THEN {"cl_health"} ELSE {})
    /\ closed' = IF ClHealthStream = "health_events" THEN closed
                 ELSE closed \cup {"cl_health"}
    /\ merged' = "open"
    /\ tasks' = tasks \cup {"events task"}
    /\ UNCHANGED <<cfgVars, exexVars, engineVars, emitted, pending, delivered>>

\* EngineApi::new(..) and ctx.auth_jwt_secret()?
AuthJwtSecret ==
    /\ Fallible("auth_jwt_secret")
    /\ UNCHANGED <<cfgVars, tasks, exexVars, engineVars, eventVars>>

\* launch_rpc_servers(..).await?
LaunchRpcServers ==
    /\ \/ /\ StepOk("launch_rpc_servers")
          /\ UNCHANGED wireVars
          /\ tasks' = tasks \cup {"rpc servers"}
       \/ /\ StepErr("launch_rpc_servers", "error")
          /\ tasks' = tasks
    /\ UNCHANGED <<cfgVars, exexVars, engineVars, eventVars>>

\* oneshot::channel() and spawn_critical_blocking("consensus engine", ..)
SpawnConsensusEngine ==
    /\ StepOk("spawn_consensus_engine")
    /\ UNCHANGED wireVars
    /\ oneshot' = [made |-> TRUE, value |-> "none", tx |-> TRUE, rx |-> TRUE]
    /\ engine' = "running"
    /\ tasks' = tasks \cup {"consensus engine"}
    /\ UNCHANGED <<cfgVars, exexVars, pipeline, stageDrivers, engineRes, sends,
                   exitFuture, eventVars>>

\* FullNode { .. } and on_node_started.on_event(full_node.clone())?
\* On an error launch_node returns and rx is dropped with its frame.
OnNodeStarted ==
    /\ \/ /\ StepOk("on_node_started")
          /\ UNCHANGED wireVars
          /\ oneshot' = oneshot
       \/ /\ StepErr("on_node_started", "error")
          /\ oneshot' = [oneshot EXCEPT !.rx = FALSE]
    /\ UNCHANGED <<cfgVars, tasks, exexVars, pipeline, stageDrivers, engine, engineRes,
                   sends, exitFuture, eventVars>>

\* NodeHandle { node_exit_future: NodeExitFuture::new(async { Ok(rx.await??) }, ..), .. }
NodeHandle ==
    /\ StepOk("node_handle")
    /\ DropLocals
    /\ exitFuture' = "pending"
    /\ UNCHANGED <<cfgVars, tasks, exexVars, pipeline, stageDrivers, engine, engineRes,
                   oneshot, sends, eventVars>>

LaunchNode ==
    \/ WithConfiguredGlobals \/ WithLoadedTomlConfig \/ WithResolvedPeers \/ Attach
    \/ WithAdjustedConfigs \/ WithProviderFactory \/ WithPrometheusServer
    \/ WithGenesis \/ WithMetricsTask \/ WithBlockchainDb \/ WithComponents
    \/ LaunchExEx \/ FetchClient \/ MaxBlock \/ StaticFileHook
    \/ BuildNetworkedPipeline \/ BuildPruner \/ EthServiceNew \/ SpawnEventsTask
    \/ AuthJwtSecret \/ LaunchRpcServers \/ SpawnConsensusEngine \/ OnNodeStarted
    \/ NodeHandle

\* ------------------------------------------------------------------ the consensus-engine task

\* eth_service.await is running: the service drives the pipeline it holds.
EngineRunStage ==
    /\ engine = "running"
    /\ pipeline = "eth_service"
    /\ "consensus engine" \notin stageDrivers
    /\ stageDrivers' = stageDrivers \cup {"consensus engine"}
    /\ UNCHANGED <<wireVars, reqVars, superVars, launchVars, cfgVars, tasks, exexVars, pipeline, engine, engineRes,
                   oneshot, sends, exitFuture, eventVars>>

\* let res = eth_service.await: the service reports its terminal result.
EngineTerminate ==
    /\ engine = "running"
    /\ \E r \in {"ok", "err"} : engineRes' = r
    /\ engine' = "returned"
    /\ reqRx' = "dropped"
    /\ reqQueue' = <<>>
    /\ UNCHANGED <<hooks, tree, received, reqSent, lastSend, superVars, launchVars, cfgVars, tasks, exexVars, pipeline, stageDrivers,
                   oneshot, sends, exitFuture, eventVars>>

\* oneshot::Sender::send(self, v): stores v if the receiver is alive; the
\* sender is consumed either way.
OneshotSend(ch, v) ==
    IF ch.tx /\ ch.rx /\ ch.value = "none"
    THEN [ch EXCEPT !.value = v, !.tx = FALSE]
    ELSE [ch EXCEPT !.tx = FALSE]

\* A task spawned with spawn_critical or spawn_critical_blocking panics: the
\* task executor reports it and the node shuts down.
CriticalTaskPanicked(t) == shutdown \cup {t}

\* The service panics, or the task is dropped, before eth_service.await
\* returns: the future is dropped with the sender and the service in it, no
\* result is sent.
EnginePanic ==
    /\ engine = "running"
    /\ engine' = "panicked"
    /\ oneshot' = [oneshot EXCEPT !.tx = FALSE]
    /\ reqRx' = "dropped"
    /\ reqQueue' = <<>>
    /\ panicked' = panicked \cup {"consensus engine"}
    /\ shutdown' = CriticalTaskPanicked("consensus engine")
    /\ UNCHANGED <<hooks, tree, received, reqSent, lastSend, launchVars, cfgVars, tasks,
                   exexVars, pipeline, stageDrivers, engineRes, sends, exitFuture,
                   eventVars>>

\* A faulty variant of EngineSend: the task unwraps the result and panics on
\* an error of the service.
EngineSendUnwraps ==
    /\ engine = "returned"
    /\ IF engineRes = "err"
       THEN /\ engine' = "panicked"
            /\ oneshot' = [oneshot EXCEPT !.tx = FALSE]
            /\ sends' = sends
            /\ panicked' = panicked \cup {"consensus engine"}
            /\ shutdown' = CriticalTaskPanicked("consensus engine")
       ELSE /\ engine' = "exited"
            /\ oneshot' = OneshotSend(oneshot, engineRes)
            /\ sends' = sends + 1
            /\ UNCHANGED superVars
    /\ UNCHANGED <<wireVars, reqVars, launchVars, cfgVars, tasks, exexVars, pipeline,
                   stageDrivers, engineRes, exitFuture, eventVars>>

\* A faulty variant of EngineSend: the task sends Ok whatever the service reported.
EngineSendAlwaysOk ==
    /\ engine = "returned"
    /\ oneshot' = OneshotSend(oneshot, "ok")
    /\ sends' = sends + 1
    /\ engine' = "exited"
    /\ UNCHANGED <<wireVars, reqVars, superVars, launchVars, cfgVars, tasks, exexVars, pipeline, stageDrivers,
                   engineRes, exitFuture, eventVars>>

\* A faulty variant of EngineSend: the task keeps a sender and sends again,
\* overwriting the value in the channel.
EngineSendRepeats ==
    /\ engine = "returned"
    /\ sends < 2
    /\ \E v \in {"ok", "err"} : oneshot' = [oneshot EXCEPT !.value = v]
    /\ sends' = sends + 1
    /\ engine' = "returned"
    /\ UNCHANGED <<wireVars, reqVars, superVars, launchVars, cfgVars, tasks, exexVars, pipeline, stageDrivers,
                   engineRes, exitFuture, eventVars>>

\* let _ = tx.send(res): the task forwards the result and ends.
EngineSend ==
    /\ engine = "returned"
    /\ oneshot' = OneshotSend(oneshot, engineRes)
    /\ sends' = sends + 1
    /\ engine' = "exited"
    /\ UNCHANGED <<wireVars, reqVars, superVars, launchVars, cfgVars, tasks, exexVars, pipeline, stageDrivers,
                   engineRes, exitFuture, eventVars>>

\* A faulty variant of ExitFutureValue: a dropped sender is not noticed.
ExitFutureValueIgnoresDrop == IF oneshot.value = "none" THEN "pending" ELSE oneshot.value

\* async { Ok(rx.await??) }: ready once the channel holds the result, Ok for
\* Ok(()), the service's error for Err; the RecvError when the sender was
\* dropped without a send.
ExitFutureValue ==
    IF oneshot.value # "none" THEN oneshot.value
    ELSE IF oneshot.made /\ ~oneshot.tx THEN "recv_error"
    ELSE "pending"

\* NodeExitFuture polled by the holder of the Node Handle.
ExitFuturePoll ==
    /\ exitFuture = "pending"
    /\ ExitFutureValue # "pending"
    /\ exitFuture' = ExitFutureValue
    /\ UNCHANGED <<wireVars, reqVars, superVars, launchVars, cfgVars, tasks, exexVars, pipeline, stageDrivers, engine,
                   engineRes, oneshot, sends, eventVars>>

EngineTask ==
    EngineRunStage \/ EngineTerminate \/ EnginePanic \/ EngineSend \/ ExitFuturePoll

\* ------------------------------------------------------------------ execution extensions and the pruner

\* The minimum finished height over the installed extensions.
MinFinished == SeqMin(heights)

\* An extension reports a higher finished height to the manager.
ExExReport ==
    /\ exexHandle = "some"
    /\ \E i \in 1..config.exexs :
          /\ heights[i] < MaxHeight
          /\ heights' = [heights EXCEPT ![i] = heights[i] + 1]
    /\ UNCHANGED <<wireVars, reqVars, superVars, launchVars, cfgVars, tasks, exexHandle, published, pipelineExex,
                   prunerBound, engineVars, eventVars>>

\* The manager publishes the minimum over its extensions on the handle.
ManagerUpdate ==
    /\ exexHandle = "some"
    /\ published # MinFinished
    /\ published' = MinFinished
    /\ UNCHANGED <<wireVars, reqVars, superVars, launchVars, cfgVars, tasks, exexHandle, heights, pipelineExex,
                   prunerBound, engineVars, eventVars>>

\* The height the pruner built by launch_node may prune up to: the handle's
\* finished height when it was built with one, the chain's tip otherwise.
PrunerLimit == IF prunerBound = "watch" THEN published ELSE MaxHeight

ExEx == ExExReport \/ ManagerUpdate

\* ------------------------------------------------------------------ the event streams

Sources == {"network", "pipeline", "cl_health", "pruner", "static_file"}

TotalEmitted == Sum(emitted, Sources)

\* The streams whose source can emit: the network and the health monitor run
\* on their own; the pipeline, the pruner and the static-file producer are
\* run from the consensus-engine task only.
Emitters ==
    {s \in created \ closed :
        s \in {"pipeline", "pruner", "static_file"} => engine # "unspawned"}

\* A source emits an event on its stream.
Emit ==
    /\ TotalEmitted < MaxEvents
    /\ \E s \in Emitters :
          /\ emitted' = [emitted EXCEPT ![s] = emitted[s] + 1]
          /\ pending' = [pending EXCEPT ![s] = pending[s] + 1]
    /\ UNCHANGED <<wireVars, reqVars, superVars, launchVars, cfgVars, tasks, exexVars, engineVars, created, closed,
                   delivered, merged>>

\* A source ends its stream.
CloseSource ==
    /\ \E s \in created \ closed : closed' = closed \cup {s}
    /\ UNCHANGED <<wireVars, reqVars, superVars, launchVars, cfgVars, tasks, exexVars, engineVars, created, emitted,
                   pending, delivered, merged>>

\* A faulty variant of MergedEnds: the merged stream ends with its first ended source.
MergedEndsWithAny == \E s \in Sources : s \in closed /\ pending[s] = 0

\* stream_select! ends when every one of its streams has ended.
MergedEnds == \A s \in Sources : s \in closed /\ pending[s] = 0

\* handle_events polls the merged stream: it yields an event of any stream
\* that has one, or ends.
MergedPoll ==
    /\ merged = "open"
    /\ "events task" \notin panicked
    /\ \/ /\ \E s \in Sources :
                /\ pending[s] > 0
                /\ pending' = [pending EXCEPT ![s] = pending[s] - 1]
                /\ delivered' = [delivered EXCEPT ![s] = delivered[s] + 1]
          /\ merged' = merged
       \/ /\ MergedEnds
          /\ merged' = "ended"
          /\ UNCHANGED <<pending, delivered>>
    /\ UNCHANGED <<wireVars, reqVars, superVars, launchVars, cfgVars, tasks, exexVars, engineVars, created, closed,
                   emitted>>

\* handle_events panics: the events task was spawned with spawn_critical.
EventsTaskPanic ==
    /\ "events task" \in tasks \ panicked
    /\ merged = "open"
    /\ panicked' = panicked \cup {"events task"}
    /\ shutdown' = CriticalTaskPanicked("events task")
    /\ UNCHANGED <<wireVars, reqVars, launchVars, cfgVars, tasks, exexVars, engineVars,
                   eventVars>>

Events == Emit \/ CloseSource \/ MergedPoll

\* ------------------------------------------------------------------ the consensus-engine request queue

\* The receiver of the unbounded channel exists, in launch_node or in the service.
ReceiverAlive == reqRx \in {"launch_node", "eth_service"}

\* A faulty variant of SendOutcome: a send never fails.
SendOutcomeAlwaysOk == "ok"

\* UnboundedSender::send: Ok while the receiver exists, SendError once it
\* has been dropped; it never waits.
SendOutcome == IF ReceiverAlive THEN "ok" ELSE "failed"

\* A faulty variant of QueuePush: the newest request jumps the queue.
QueuePushFront(q, r) == <<r>> \o q

\* The unbounded channel is first in, first out.
QueuePush(q, r) == Append(q, r)

\* The Engine-API handler, served by the RPC servers, sends a request on its
\* clone of the BeaconConsensusEngineHandle.
HandleSend ==
    /\ "rpc servers" \in tasks
    /\ reqSent < MaxRequests
    /\ reqSent' = reqSent + 1
    /\ lastSend' = SendOutcome
    /\ reqQueue' = IF SendOutcome = "ok" /\ ReceiverAlive
                   THEN QueuePush(reqQueue, [id |-> reqSent + 1,
                                             early |-> engine = "unspawned"])
                   ELSE reqQueue
    /\ UNCHANGED <<received, wireVars, superVars, launchVars, cfgVars, tasks, exexVars,
                   engineVars, eventVars>>

\* The running service polls UnboundedReceiverStream::new(consensus_engine_rx)
\* and takes the oldest request.
EngineRecv ==
    /\ engine = "running"
    /\ reqRx = "eth_service"
    /\ reqQueue # <<>>
    /\ received' = Append(received, Head(reqQueue))
    /\ reqQueue' = Tail(reqQueue)
    /\ UNCHANGED <<reqSent, lastSend, wireVars, superVars, launchVars, cfgVars, tasks,
                   exexVars, engineVars, eventVars>>

Requests == HandleSend \/ EngineRecv

\* ------------------------------------------------------------------ specifications

\* The launch sequence, the consensus-engine task and the exit future.
Next == LaunchNode \/ EngineTask \/ EventsTaskPanic

Spec == Init /\ [][Next]_vars

\* The tasks run on the tokio runtime, which polls every ready task, and the
\* holder of the Node Handle awaits the exit future.
FairSpec == Spec /\ WF_vars(EngineSend) /\ WF_vars(ExitFuturePoll)

\* A launch on a fresh store without a metrics endpoint.
InitFresh == Init /\ store = "none" /\ ~config.metrics

\* The launch with the extensions and their manager at work.
NextExEx == LaunchNode \/ EngineTask \/ ExEx

InitExEx == InitFresh /\ ~config.tip /\ ~config.dev

ExExSpec == InitExEx /\ [][NextExEx]_vars

\* The launch with the event sources and the events task at work.
NextEvents == LaunchNode \/ Events

InitEvents == InitFresh /\ config.exexs = 0

EventsSpec == InitEvents /\ [][NextEvents]_vars

\* The launch and the engine task with the Engine-API handler sending requests.
NextReq == LaunchNode \/ EngineTask \/ Requests

InitReq == InitFresh /\ config.exexs = 0 /\ ~config.tip /\ ~config.dev

ReqSpec == InitReq /\ [][NextReq]_vars

\* The same under the runtime's scheduling: a spawned task that is ready is polled.
FairReqSpec == ReqSpec /\ WF_vars(SpawnConsensusEngine) /\ WF_vars(EngineRecv)

\* ------------------------------------------------------------------ properties

\* The Launch Context steps in their documented order.
DocumentedOrder ==
    << "with_configured_globals", "with_loaded_toml_config", "with_resolved_peers",
       "attach", "with_adjusted_configs", "with_provider_factory", "with_genesis",
       "with_metrics_task", "with_blockchain_db", "with_components" >>

\* C1: the Launch Context steps complete in the documented relative order
\* (globals, TOML config, peers, database, adjusted configs, provider factory,
\* genesis, metrics task, blockchain provider, components); a step is entered
\* only when every step entered before it has completed successfully, so at
\* most one step is ever entered and not completed, and the launch has then
\* failed.
C1_LaunchContextOrder ==
    /\ IsPrefix(Restrict(completed, Range(DocumentedOrder)), DocumentedOrder)
    /\ IsPrefix(completed, started)
    /\ Len(started) <= Len(completed) + 1
    /\ Len(started) = Len(completed) + 1 => pc = "failed"

\* All ten Launch Context steps have completed.
C1_Witness == Restrict(completed, Range(DocumentedOrder)) = DocumentedOrder

\* C2: when a fallible step fails launch_node returns that step's error: the
\* failed step is the last one entered and was entered once, every step before
\* it completed, no exit future and no Node Handle exists, and nothing of the
\* launch changes afterwards; a Node Handle is returned only when every step
\* of the function completed.
C2_FailurePropagates ==
    /\ [](/\ result.kind = "err" =>
                /\ pc = "failed"
                /\ started = Append(completed, result.step)
                /\ result.step \notin Range(completed)
                /\ exitFuture = "none"
          /\ (pc = "failed" \/ Len(started) > Len(completed)) => result.kind = "err"
          /\ result.kind = "handle" =>
                /\ pc = "returned"
                /\ completed = LaunchOrder
                /\ started = completed)
    /\ [][pc = "failed" => UNCHANGED launchVars]_vars

\* The on-started observer failed after every other step had succeeded.
C2_Witness == result = Err("on_node_started", "error")

\* C3 as stated: with a different genesis in the store the genesis step fails
\* with a genesis-mismatch error and no background task has been started.
C3_NoTaskAtGenesisMismatch ==
    (store \notin {"none", ConfiguredGenesis} /\ "with_genesis" \in Range(started)) =>
        /\ result = Err("with_genesis", "genesis_mismatch")
        /\ tasks = {}

\* C4: the completion channel takes at most one result and the exit future
\* resolves at most once: at most one send is made, a value in the channel is
\* never replaced, and a resolved exit future never changes.
C4_ExitResolvesOnce ==
    [][/\ sends' <= 1
       /\ oneshot.value # "none" => oneshot'.value = oneshot.value
       /\ exitFuture \notin {"none", "pending"} => exitFuture' = exitFuture]_vars

\* The task has sent its one result and the exit future has resolved.
C4_Witness == sends = 1 /\ exitFuture \in {"ok", "err"}

C6_EngineSoleDriver ==
    /\ stageDrivers \subseteq {"consensus engine"}
    /\ pipeline \in {"none", "launch_node", "eth_service"}
    /\ engine # "unspawned" => pipeline = "eth_service"
    /\ pipeline = "launch_node" => pc \in {"build_pruner", "eth_service_new"}

\* The consensus-engine task has run a pipeline stage.
C6_Witness == "consensus engine" \in stageDrivers /\ pipeline = "eth_service"

\* C7: every Launch Context field a step reads was produced by a step that
\* completed before it.
C7_ReadsAfterProduced == [][reads' \subseteq fields]_vars

\* The exex launcher has read the head and the node adapter.
C7_Witness == {"head", "node_adapter"} \subseteq reads

\* C8: with no extension installed the launcher returns no handle, the
\* pipeline is given the empty handle and the pruner is built without a
\* finished-height bound: it may prune up to the tip.
C8_NoExExUnbounded ==
    config.exexs = 0 =>
        /\ exexHandle \in {"unlaunched", "none"}
        /\ "build_networked_pipeline" \in Range(completed) => pipelineExex = "empty"
        /\ "build_pruner" \in Range(completed) =>
              prunerBound = "unbounded" /\ PrunerLimit = MaxHeight

\* Without extensions the pipeline and the pruner have been built.
C8_Witness == config.exexs = 0 /\ pipelineExex = "empty" /\ prunerBound = "unbounded"

\* C9: with at least one extension installed the limit the pruner was built
\* with never exceeds the minimum finished height over the extensions.
C9_PrunerBoundedByMin ==
    (config.exexs >= 1 /\ "build_pruner" \in Range(completed)) =>
        PrunerLimit <= MinFinished

\* Two extensions at different heights, the pruner built, and the manager has
\* published a height above the initial one.
C9_Witness ==
    /\ config.exexs >= 2
    /\ "build_pruner" \in Range(completed)
    /\ published >= 1
    /\ \E i, j \in 1..config.exexs : heights[i] < heights[j]

\* C10: no event of a source is dropped (each emitted event is pending or was
\* delivered to the events task), and the merged stream ends only when every
\* source has ended and all its events were delivered.
C10_NoEventLost ==
    /\ \A s \in Sources : emitted[s] = pending[s] + delivered[s]
    /\ merged = "ended" =>
          \A s \in Sources : s \in closed /\ delivered[s] = emitted[s]

\* One event of each of the four sources was delivered before the merged
\* stream ended.
C10_Witness ==
    /\ merged = "ended"
    /\ \A s \in {"network", "pipeline", "pruner", "static_file"} : delivered[s] = 1

\* C11 as stated: the hook set with the prune hook and the static-file hook is
\* held by the running consensus-engine service.
C11_HooksHeldByEngine ==
    engine = "running" =>
        hooks.holder = "eth_service" /\ {"prune", "static_file"} \subseteq hooks.set

C13_SupervisionPolicies ==
    /\ "events task" \in panicked => "events task" \in shutdown
    /\ engineRes = "err" =>
          /\ engine \in {"returned", "exited"}
          /\ "consensus engine" \notin panicked \cup shutdown
          /\ (engine = "exited" /\ oneshot.rx) => oneshot.value = "err"
          /\ exitFuture \notin {"none", "pending"} => exitFuture = "err"

\* The events task panicked and was reported; the service's error reached the
\* exit future.
C13_Witness ==
    /\ "events task" \in shutdown
    /\ engineRes = "err"
    /\ exitFuture = "err"

\* C14: once the merged stream is built, the health monitor's stream is one of
\* its streams exactly when no debug tip is set and the node is not in
\* development mode; otherwise the empty stream is in its place: it has ended
\* and no event ever comes from it.
C14_HealthStreamWhenActive ==
    merged # "none" =>
        /\ "cl_health" \in created <=> (~config.tip /\ ~config.dev)
        /\ "cl_health" \notin created =>
              "cl_health" \in closed /\ emitted["cl_health"] = 0

\* In development mode without a debug tip the merged stream ended with the
\* empty stream in the health monitor's place.
C14_Witness ==
    /\ config.dev /\ ~config.tip
    /\ merged = "ended"
    /\ "cl_health" \notin created
    /\ delivered["network"] >= 1

\* C15: a send on the Consensus-Engine Handle succeeds while the service that
\* owns the request receiver exists, and every send made after the
\* consensus-engine task has ended fails.
C15_SendFollowsReceiver ==
    [][reqSent' # reqSent =>
          /\ (reqRx = "eth_service" => lastSend' = "ok" /\ Len(reqQueue') = Len(reqQueue) + 1)
          /\ (engine \in {"returned", "exited", "panicked"} =>
                 lastSend' = "failed" /\ reqQueue' = reqQueue)]_vars

C15_Witness ==
    /\ engine \in {"returned", "exited", "panicked"}
    /\ reqSent > 1
    /\ lastSend = "failed"
    /\ received # <<>>

\* The request ids of a queue, in queue order.
Ids(q) == [i \in 1..Len(q) |-> q[i].id]

\* Every request sent so far is either received or still queued, in the order sent.
AllRequestsInOrder == Ids(received \o reqQueue) = [i \in 1..reqSent |-> i]

C17_TreeEndpointsOpen ==
    engine = "running" =>
        tree.toTreeRx # "dropped" /\ tree.fromTreeTx # "dropped"

\* C18: the consensus-engine task is spawned only after the RPC servers were
\* launched successfully; when deriving the JWT secret or launching the RPC
\* servers fails, the task is never started and the pipeline never driven,
\* and the events task spawned before stays.
C18_EngineAfterRpc ==
    /\ "consensus engine" \in tasks =>
           /\ "rpc servers" \in tasks
           /\ IsPrefix(<<"auth_jwt_secret", "launch_rpc_servers", "spawn_consensus_engine">>,
                       Restrict(completed, {"auth_jwt_secret", "launch_rpc_servers",
                                            "spawn_consensus_engine"}))
    /\ (result.kind = "err" /\ result.step \in {"auth_jwt_secret", "launch_rpc_servers"}) =>
           /\ engine = "unspawned"
           /\ "consensus engine" \notin tasks
           /\ stageDrivers = {}
           /\ "events task" \in tasks

C18_Witness ==
    /\ result = Err("launch_rpc_servers", "error")
    /\ pc = "failed"
    /\ "events task" \in tasks

\* C19: when the consensus-engine task ends without sending on the completion
\* channel, the Exit Future resolves with an error instead of staying
\* pending; when the receiver was dropped by a launch that failed after the
\* spawn, the task's send is ignored and the task still ends.
C19_DroppedEndsHandled ==
    /\ ((engine = "panicked" /\ exitFuture = "pending") ~> (exitFuture = "recv_error"))
    /\ [](exitFuture = "recv_error" => oneshot.value = "none" /\ ~oneshot.tx)
    /\ [][(engine = "returned" /\ engine' = "exited" /\ ~oneshot.rx) =>
             (oneshot'.value = "none" /\ exitFuture' = "none" /\ result' = result)]_vars
    /\ ((engine = "returned") ~> (engine = "exited"))

C19_Witness ==
    /\ engine = "panicked"
    /\ result = Handle
    /\ sends = 0
    /\ exitFuture = "recv_error"
=============================================================================
